---- MODULE Spec2Model ----
(***************************************************************************)
(* The corpus pipeline of vecto (src/vecto/corpus/iterators.py) and its    *)
(* consumer DirWindowIterator (src/vecto/embeddings/utils/word.py).        *)
(*                                                                         *)
(* Python indices are 0-based and TLA+ sequences 1-based: an operator that *)
(* takes an index i takes the Python index, and reads seq[i + 1].          *)
(***************************************************************************)
EXTENDS Integers, Sequences, FiniteSets, TLC

VARIABLES
    base_corpus,  \* what the upstream of the sliding window yields on a fresh iteration
    swi,          \* the SlidingWindowIterator instance (its fields and its generator)
    inst,         \* how many SlidingWindowIterator instances were constructed
    ret,          \* the outcome of the last call
    out,          \* the samples the current instance has returned, in order
    stops,        \* how often the current instance has signalled StopIteration
    files,        \* the files behind the paths the FileLineIterator's upstream yields
    direct,       \* the FileLineIterator generator a consumer iterates directly
    lines_out,    \* the lines that generator has yielded, in order
    main,         \* the FileLineIterator generator the sliding window's generator iterates
    handles,      \* the open file handles: which generator holds which file
    garbage,      \* the suspended generators nothing refers to any more
    nextgen,      \* the next generator's identity
    peak,         \* the most handles the FileLineIterator had open at one time
    opened,       \* how many files were opened so far
    pulls,        \* how many times a consumer has pulled
    refcount,     \* whether the interpreter finalizes an object when its last reference goes
    window_size,  \* DirWindowIterator.window_size
    repeat,       \* DirWindowIterator._repeat
    batch_size,   \* DirWindowIterator.batch_size
    vocab,        \* the tokens the vocabulary holds
    epoch,        \* DirWindowIterator.epoch
    is_new_epoch, \* DirWindowIterator.is_new_epoch
    cnt_words_total, \* DirWindowIterator.cnt_words_total
    cnt_words_read,  \* DirWindowIterator.cnt_words_read
    pc,           \* where the DirWindowIterator's caller is
    batch,        \* the (center, context) pairs the running __next__ has collected
    returned,     \* what next_single_sample has returned, in order
    calls         \* how many times next_single_sample was called

winVars == <<base_corpus, swi, inst, ret, out, stops>>
lineVars == <<files, direct, lines_out>>
stackVars == <<main, handles, garbage, nextgen, peak, opened, pulls, refcount>>
dirVars == <<window_size, repeat, batch_size, vocab, epoch, is_new_epoch,
             cnt_words_total, cnt_words_read, pc, batch, returned, calls>>
vars == <<winVars, lineVars, stackVars, dirVars>>

\* Bounds of the model.
MaxSeqs == 2
MaxSeqLen == 4
MaxCtx == 3
MaxInstances == 2
MaxStops == 2
MaxFiles == 2
MaxLines == 2
MaxWindow == 3
MaxBatch == 2
MaxCalls == 5

Max(a, b) == IF a > b THEN a ELSE b
Min(a, b) == IF a < b THEN a ELSE b

(***************************************************************************)
(* Python's seq[a:b] on a list: a negative bound counts from the end, and  *)
(* every bound is then clipped to 0..len(seq).                             *)
(***************************************************************************)
SliceBound(x, n) == IF x < 0 THEN Max(0, x + n) ELSE Min(x, n)

PySlice(seq, a, b) ==
    SubSeq(seq, SliceBound(a, Len(seq)) + 1, SliceBound(b, Len(seq)))

\* A faulty variant: the right slice starts at the center instead of after it.
sliding_window_at_with_center(seq, left_ctx_size, right_ctx_size, i) ==
    [i |-> i,
     current |-> seq[i + 1],
     ctx |-> PySlice(seq, i - left_ctx_size, i)
               \o PySlice(seq, i, i + right_ctx_size + 1)]

\* The i-th value of iter_sliding_window(seq, left_ctx_size, right_ctx_size).
sliding_window_at(seq, left_ctx_size, right_ctx_size, i) ==
    [i |-> i,
     current |-> seq[i + 1],
     ctx |-> PySlice(seq, i - left_ctx_size, i)
               \o PySlice(seq, i + 1, i + right_ctx_size + 1)]

\* iter_sliding_window as the sequence of the triples it yields.
iter_sliding_window(seq, left_ctx_size, right_ctx_size) ==
    IF Len(seq) = 0 THEN <<>>
    ELSE [j \in 1..Len(seq) |->
            sliding_window_at(seq, left_ctx_size, right_ctx_size, j - 1)]

NoSample == [current |-> <<0, 0>>, context |-> <<>>]
NoSWI == [left_ctx_size |-> 0, right_ctx_size |-> 0,
          gen |-> [state |-> "none", up |-> 0, cur |-> <<>>, ci |-> 0]]

(***************************************************************************)
(* BaseIterator.__iter__ (vecto/corpus/base.py): every iter() of a stage   *)
(* starts a fresh pass over what the stage yields.  next() of the pass     *)
(* that has consumed `pos` elements:                                       *)
(***************************************************************************)
base_next(base, pos) ==
    IF pos < Len(base)
    THEN [kind |-> "value", value |-> base[pos + 1]]
    ELSE [kind |-> "StopIteration", value |-> <<>>]

\* A faulty variant: the probe and the generator share one pass over the upstream.
SWI_init_shared_pass(probe, left_ctx_size, right_ctx_size) ==
    IF probe.kind # "value"
    THEN [kind |-> probe.kind, swi |-> NoSWI]
    ELSE [kind |-> "ok",
          swi |-> [left_ctx_size |-> left_ctx_size,
                   right_ctx_size |-> right_ctx_size,
                   gen |-> [state |-> "created", up |-> 1,
                            cur |-> <<>>, ci |-> 0]]]

(***************************************************************************)
(* SlidingWindowIterator.__init__, given the outcome `probe` of its         *)
(* next(iter(base_corpus)): what the probe raises escapes the constructor; *)
(* every element of the model is a sequence, so the assert passes.         *)
(* self.__gen__ is a generator that has not started.                       *)
(***************************************************************************)
SWI_init(probe, left_ctx_size, right_ctx_size) ==
    IF probe.kind # "value"
    THEN [kind |-> probe.kind, swi |-> NoSWI]
    ELSE [kind |-> "ok",
          swi |-> [left_ctx_size |-> left_ctx_size,
                   right_ctx_size |-> right_ctx_size,
                   gen |-> [state |-> "created", up |-> 0,
                            cur |-> <<>>, ci |-> 0]]]

\* _generate_samples binds sample_elems to the next upstream element.
SWI_take(s, sample_elems) ==
    [s EXCEPT !.gen.up = s.gen.up + 1, !.gen.cur = sample_elems, !.gen.ci = 0]

\* _generate_samples yields the next window of sample_elems as a dict.
SWI_yield(s) ==
    LET w == iter_sliding_window(s.gen.cur, s.left_ctx_size,
                                 s.right_ctx_size)[s.gen.ci + 1]
    IN  [kind |-> "sample",
         value |-> [current |-> w.current, context |-> w.ctx],
         swi |-> [s EXCEPT !.gen.state = "suspended",
                           !.gen.ci = s.gen.ci + 1]]

\* The generator ends, by returning or by an exception that escapes it.
SWI_end(s, kind) ==
    [kind |-> kind, value |-> NoSample,
     swi |-> [s EXCEPT !.gen.state = "finished"]]

(***************************************************************************)
(* SlidingWindowIterator._generate_samples over an upstream that yields    *)
(* `base`, resumed until its next yield: gen.cur is sample_elems, gen.ci   *)
(* the number of its windows already yielded, gen.up the number of         *)
(* upstream elements consumed.  A finished generator raises StopIteration. *)
(***************************************************************************)
RECURSIVE SWI_generate_samples(_, _)
SWI_generate_samples(base, s) ==
    IF s.gen.state = "finished" THEN SWI_end(s, "StopIteration")
    ELSE IF s.gen.ci < Len(s.gen.cur) THEN SWI_yield(s)
    ELSE LET nxt == base_next(base, s.gen.up)
         IN  IF nxt.kind = "StopIteration"
             THEN SWI_end(s, "StopIteration")
             ELSE SWI_generate_samples(base, SWI_take(s, nxt.value))

\* A faulty variant: a pull on an exhausted instance starts a new generator.
SWI_next_restarting(base, s) ==
    SWI_generate_samples(base,
        IF s.gen.state = "finished"
        THEN [s EXCEPT !.gen = [state |-> "created", up |-> 0,
                                cur |-> <<>>, ci |-> 0]]
        ELSE s)

\* SlidingWindowIterator.__next__: next(self.__gen__).
SWI_next(base, s) == SWI_generate_samples(base, s)

\* `for sample in swi`: __iter__ returns the instance, __next__ until StopIteration.
RECURSIVE SWI_for(_, _, _)
SWI_for(base, s, acc) ==
    LET r == SWI_next(base, s)
    IN  IF r.kind = "StopIteration"
        THEN [swi |-> r.swi, samples |-> acc]
        ELSE SWI_for(base, r.swi, Append(acc, r.value))

----------------------------------------------------------------------------
\* The sliding window over an upstream of token sequences.

\* The i-th token of the k-th sequence; tokens are told apart by their place.
Token(k, i) == <<k, i>>

Corpora ==
    UNION {{[k \in 1..m |-> [j \in 1..lens[k] |-> Token(k, j - 1)]] :
               lens \in [1..m -> 0..MaxSeqLen]} : m \in 0..MaxSeqs}

NoFrame == [id |-> 0, state |-> "none", f |-> 0, l |-> 0, open |-> FALSE]

LineIdle ==
    /\ files = <<>>
    /\ direct = NoFrame
    /\ lines_out = <<>>

StackIdle ==
    /\ main = NoFrame
    /\ handles = {}
    /\ garbage = {}
    /\ nextgen = 1
    /\ peak = 0
    /\ opened = 0
    /\ pulls = 0

DirIdle ==
    /\ window_size = 0
    /\ repeat = FALSE
    /\ batch_size = 0
    /\ vocab = {}
    /\ epoch = 0
    /\ is_new_epoch = FALSE
    /\ cnt_words_total = 0
    /\ cnt_words_read = 0
    /\ pc = "none"
    /\ batch = <<>>
    /\ returned = <<>>
    /\ calls = 0

WinInit ==
    /\ LineIdle
    /\ StackIdle
    /\ refcount = TRUE
    /\ DirIdle
    /\ base_corpus \in Corpora
    /\ swi = NoSWI
    /\ inst = 0
    /\ ret = [kind |-> "none", value |-> NoSample]
    /\ out = <<>>
    /\ stops = 0

Construct ==
    /\ inst < MaxInstances
    /\ \E L \in 0..MaxCtx, R \in 0..MaxCtx :
         LET r == SWI_init(base_next(base_corpus, 0), L, R)
         IN  /\ swi' = r.swi
             /\ ret' = [kind |-> IF r.kind = "ok" THEN "constructed" ELSE r.kind,
                        value |-> NoSample]
    /\ inst' = inst + 1
    /\ out' = <<>>
    /\ stops' = 0
    /\ UNCHANGED <<base_corpus, lineVars, stackVars, dirVars>>

Next1 ==
    /\ swi.gen.state # "none"
    /\ stops < MaxStops
    /\ LET r == SWI_next(base_corpus, swi)
       IN  /\ swi' = r.swi
           /\ ret' = [kind |-> r.kind, value |-> r.value]
           /\ out' = IF r.kind = "sample" THEN Append(out, r.value) ELSE out
           /\ stops' = IF r.kind = "sample" THEN stops ELSE stops + 1
    /\ UNCHANGED <<base_corpus, inst, lineVars, stackVars, dirVars>>

ForLoop ==
    /\ swi.gen.state # "none"
    /\ stops < MaxStops
    /\ LET r == SWI_for(base_corpus, swi, <<>>)
       IN  /\ swi' = r.swi
           /\ out' = out \o r.samples
           /\ ret' = [kind |-> "StopIteration", value |-> NoSample]
           /\ stops' = stops + 1
    /\ UNCHANGED <<base_corpus, inst, lineVars, stackVars, dirVars>>

WinNext == Construct \/ Next1 \/ ForLoop

SpecWindow == WinInit /\ [][WinNext]_vars

RECURSIVE Flatten(_)
Flatten(seqs) == IF seqs = <<>> THEN <<>> ELSE Head(seqs) \o Flatten(Tail(seqs))

\* S[max(0, i-L) : i] followed by S[i+1 : min(n, i+R+1)], by positions.
WindowOf(S, i, L, R) ==
    SubSeq(S, Max(0, i - L) + 1, i) \o SubSeq(S, i + 2, Min(Len(S), i + R + 1))

Currents(samples) == [j \in 1..Len(samples) |-> samples[j].current]

(* C1: the sample for index i of S has context S[max(0, i-L) : i] followed
   by S[i+1 : min(n, i+R+1)], of length min(i, L) + min(n-1-i, R). *)
C1_ContextIsClippedWindow ==
    \A j \in 1..Len(out) :
        LET k == out[j].current[1]
            i == out[j].current[2]
            S == base_corpus[k]
        IN  /\ out[j].context
                 = WindowOf(S, i, swi.left_ctx_size, swi.right_ctx_size)
            /\ Len(out[j].context)
                 = Min(i, swi.left_ctx_size)
                   + Min(Len(S) - 1 - i, swi.right_ctx_size)

(* C2: one instance, fully consumed, has yielded one sample per upstream
   token, in upstream order, the first sequence included once; before that
   it has yielded a prefix of them. *)
C2_OneSamplePerToken ==
    LET want == Flatten(base_corpus)
    IN  /\ Len(out) <= Len(want)
        /\ Currents(out) = SubSeq(want, 1, Len(out))
        /\ swi.gen.state = "finished" => Len(out) = Len(want)

C2_Witness ==
    /\ swi.gen.state = "finished"
    /\ Len(base_corpus) = 2
    /\ Len(base_corpus[1]) >= 2
    /\ Len(base_corpus[2]) >= 1
    /\ Len(out) >= 3

(* C3: every context element of the sample for position i of S comes from
   a position j of the same S with j # i and i-L <= j <= i+R. *)
C3_ContextInsideWindow ==
    \A j \in 1..Len(out) :
        \A c \in 1..Len(out[j].context) :
            LET k == out[j].current[1]
                i == out[j].current[2]
                e == out[j].context[c]
            IN  /\ e[1] = k
                /\ e[2] # i
                /\ i - swi.left_ctx_size <= e[2]
                /\ e[2] <= i + swi.right_ctx_size

\* A sequence shorter than L whose sample has a context, in a corpus of two.
C3_Witness ==
    /\ Len(base_corpus) = 2
    /\ \E j \in 1..Len(out) :
         /\ Len(base_corpus[out[j].current[1]]) < swi.left_ctx_size
         /\ Len(out[j].context) >= 1
    /\ \E j \in 1..Len(out) : out[j].current[1] = 2 /\ Len(out[j].context) >= 2

(* C7: once an instance has signalled StopIteration, every later pull or
   for loop on it signals exhaustion again and yields no sample. *)
C7_SingleUse ==
    [][(swi.gen.state = "finished" /\ inst' = inst)
        => /\ swi'.gen.state = "finished"
           /\ out' = out
           /\ ret'.kind = "StopIteration"]_vars

C7_Witness ==
    /\ stops >= 2
    /\ Len(out) >= 2
    /\ swi.gen.state = "finished"
----------------------------------------------------------------------------
\* FileLineIterator over an upstream of file paths.

Whitespace == {" ", "\n"}

RECURSIVE lstrip(_)
lstrip(s) ==
    IF s # <<>> /\ Head(s) \in Whitespace THEN lstrip(Tail(s)) ELSE s

RECURSIVE rstrip(_)
rstrip(s) ==
    IF s # <<>> /\ s[Len(s)] \in Whitespace
    THEN rstrip(SubSeq(s, 1, Len(s) - 1))
    ELSE s

\* A faulty variant: only the leading whitespace is removed.
strip_left_only(line) == lstrip(line)

\* line.strip()
strip(line) == rstrip(lstrip(line))

\* A generator of FileLineIterator._generate_samples that has not started.
NewFrame(id) == [id |-> id, state |-> "created", f |-> 0, l |-> 0, open |-> FALSE]

(***************************************************************************)
(* FileLineIterator._generate_samples, resumed until its next yield.       *)
(* fr.f is the number of paths taken from the upstream, fr.l the number of *)
(* lines read from the current file, fr.open whether the generator is      *)
(* inside the with block; `opens` counts the files this resumption opens.  *)
(* A path that cannot be opened raises out of the generator.               *)
(***************************************************************************)
RECURSIVE FLI_generate_samples(_, _, _)
FLI_generate_samples(fs, fr, opens) ==
    IF fr.state = "finished"
    THEN [kind |-> "StopIteration", value |-> <<>>, frame |-> fr, opens |-> opens]
    ELSE IF fr.open
    THEN IF fr.l < Len(fs[fr.f].lines)
         THEN LET line == strip(fs[fr.f].lines[fr.l + 1])
                  nf == [fr EXCEPT !.l = fr.l + 1, !.state = "suspended"]
              IN  IF line # <<>>
                  THEN [kind |-> "value", value |-> line, frame |-> nf,
                        opens |-> opens]
                  ELSE FLI_generate_samples(fs, nf, opens)
         ELSE FLI_generate_samples(fs, [fr EXCEPT !.open = FALSE], opens)
    ELSE IF fr.f < Len(fs)
    THEN IF fs[fr.f + 1].ok
         THEN FLI_generate_samples(fs,
                [fr EXCEPT !.f = fr.f + 1, !.l = 0, !.open = TRUE,
                           !.state = "suspended"], opens + 1)
         ELSE [kind |-> "IOError", value |-> <<>>,
               frame |-> [fr EXCEPT !.f = fr.f + 1, !.state = "finished"],
               opens |-> opens]
    ELSE [kind |-> "StopIteration", value |-> <<>>,
          frame |-> [fr EXCEPT !.state = "finished"], opens |-> opens]

\* The lines a file may hold, each as the characters a read returns.
RawLines == {<<" ", "\n">>, <<"x", "\n">>, <<" ", "x", " ", "y", " ", "\n">>}

Files ==
    {[ok |-> FALSE, lines |-> <<>>]}
    \cup UNION {{[ok |-> TRUE, lines |-> c] : c \in [1..n -> RawLines]} :
                   n \in 0..MaxLines}

FileSystems == UNION {[1..m -> Files] : m \in 0..MaxFiles}

WinIdle ==
    /\ base_corpus = <<>>
    /\ swi = NoSWI
    /\ inst = 0
    /\ ret = [kind |-> "none", value |-> NoSample]
    /\ out = <<>>
    /\ stops = 0

LinesInit ==
    /\ WinIdle
    /\ StackIdle
    /\ refcount = TRUE
    /\ DirIdle
    /\ files \in FileSystems
    /\ direct = NewFrame(1)
    /\ lines_out = <<>>

\* A consumer's next() on iter(FileLineIterator).
PullLine ==
    /\ LET r == FLI_generate_samples(files, direct, 0)
       IN  /\ direct' = r.frame
           /\ lines_out' = IF r.kind = "value"
                           THEN Append(lines_out, r.value)
                           ELSE lines_out
           /\ ret' = [kind |-> r.kind, value |-> NoSample]
    /\ UNCHANGED <<base_corpus, swi, inst, out, stops, files, stackVars, dirVars>>

SpecLines == LinesInit /\ [][PullLine]_vars

\* The files before the first one that cannot be opened.
RECURSIVE Readable(_)
Readable(fs) ==
    IF fs = <<>> \/ ~Head(fs).ok THEN <<>>
    ELSE <<Head(fs).lines>> \o Readable(Tail(fs))

HasText(raw) == \E j \in 1..Len(raw) : raw[j] \notin Whitespace

\* s is raw without the whitespace at its two ends.
IsStripped(s, raw) ==
    \E a \in 0..Len(raw) :
        /\ a + Len(s) <= Len(raw)
        /\ s = SubSeq(raw, a + 1, a + Len(s))
        /\ \A j \in 1..Len(raw) :
             (j <= a \/ j > a + Len(s)) => raw[j] \in Whitespace
        /\ s # <<>> => s[1] \notin Whitespace /\ s[Len(s)] \notin Whitespace

(* C4: the line iterator yields, file by file and line by line, exactly the
   lines that are non-empty after stripping, each stripped and none empty. *)
C4_StrippedNonEmptyLines ==
    LET want == SelectSeq(Flatten(Readable(files)), HasText)
    IN  /\ Len(lines_out) <= Len(want)
        /\ \A j \in 1..Len(lines_out) :
             /\ lines_out[j] # <<>>
             /\ IsStripped(lines_out[j], want[j])
        /\ direct.state = "finished" => Len(lines_out) = Len(want)

\* Two readable files, blank and padded lines among them, read to the end.
C4_Witness ==
    /\ direct.state = "finished"
    /\ ret.kind = "StopIteration"
    /\ Len(files) = 2
    /\ Len(lines_out) = 2
    /\ \E f \in 1..2 : \E j \in 1..Len(files[f].lines) :
         ~HasText(files[f].lines[j])
    /\ \E j \in 1..2 : Len(lines_out[j]) = 3

----------------------------------------------------------------------------
\* A SlidingWindowIterator built on the FileLineIterator.

\* left_ctx_size=2, right_ctx_size=2 of SlidingWindowIterator.__init__.
DefaultCtxSize == 2

StackInit ==
    /\ WinIdle
    /\ StackIdle
    /\ refcount \in BOOLEAN
    /\ DirIdle
    /\ files \in FileSystems
    /\ direct = NoFrame
    /\ lines_out = <<>>

HeldBy(fr) == IF fr.open THEN {[gen |-> fr.id, file |-> fr.f]} ELSE {}

\* The handles of `hs` that the generators `ids` do not hold.
Released(hs, ids) == {h \in hs : h.gen \notin ids}

(***************************************************************************)
(* SlidingWindowIterator(FileLineIterator(...)): the probe is a generator  *)
(* of its own, resumed once and then dropped while suspended inside the    *)
(* with block; nothing closes it but its finalization, which reference     *)
(* counting does as the assert statement ends.  Rebinding the name to the  *)
(* new instance drops the previous one, which forms a reference cycle with *)
(* its generator (self.__gen__ holds the frame, the frame holds self), so  *)
(* it is the collector that finalizes it.                                  *)
(***************************************************************************)
StackConstruct ==
    /\ inst < MaxInstances
    /\ LET p == FLI_generate_samples(files, NewFrame(nextgen), 0)
           r == SWI_init([kind |-> p.kind, value |-> p.value],
                         DefaultCtxSize, DefaultCtxSize)
           probe == {h.gen : h \in HeldBy(p.frame)}
           previous == IF r.kind = "ok" THEN {h.gen : h \in HeldBy(main)} ELSE {}
       IN  /\ peak' = Max(peak, Cardinality(handles)
                                  + (IF p.opens > 0 THEN 1 ELSE 0))
           /\ opened' = opened + p.opens
           /\ handles' = IF refcount
                         THEN handles
                         ELSE handles \cup HeldBy(p.frame)
           /\ garbage' = garbage \cup previous
                                 \cup (IF refcount THEN {} ELSE probe)
           /\ ret' = [kind |-> IF r.kind = "ok" THEN "constructed" ELSE r.kind,
                      value |-> NoSample]
           /\ IF r.kind = "ok"
              THEN /\ swi' = r.swi
                   /\ main' = NewFrame(nextgen + 1)
                   /\ nextgen' = nextgen + 2
                   /\ out' = <<>>
                   /\ stops' = 0
              ELSE /\ nextgen' = nextgen + 1
                   /\ UNCHANGED <<swi, main, out, stops>>
    /\ inst' = inst + 1
    /\ UNCHANGED <<base_corpus, lineVars, pulls, refcount, dirVars>>

(***************************************************************************)
(* SlidingWindowIterator._generate_samples over the FileLineIterator       *)
(* generator fr, resumed until its next yield; a line is never empty.      *)
(***************************************************************************)
SWI_generate_samples_lines(fs, s, fr) ==
    IF s.gen.state = "finished"
    THEN [res |-> SWI_end(s, "StopIteration"), frame |-> fr, opens |-> 0,
          ran |-> FALSE]
    ELSE IF s.gen.ci < Len(s.gen.cur)
    THEN [res |-> SWI_yield(s), frame |-> fr, opens |-> 0, ran |-> FALSE]
    ELSE LET u == FLI_generate_samples(fs, fr, 0)
         IN  [res |-> IF u.kind = "value"
                      THEN SWI_yield(SWI_take(s, u.value))
                      ELSE SWI_end(s, u.kind),
              frame |-> u.frame, opens |-> u.opens, ran |-> TRUE]

\* next(swi) by the consumer.
StackPull ==
    /\ swi.gen.state # "none"
    /\ stops < MaxStops
    /\ LET g == SWI_generate_samples_lines(files, swi, main)
           others == {h \in handles : h.gen # main.id}
       IN  /\ swi' = g.res.swi
           /\ ret' = [kind |-> g.res.kind, value |-> g.res.value]
           /\ out' = IF g.res.kind = "sample"
                     THEN Append(out, g.res.value) ELSE out
           /\ stops' = IF g.res.kind = "sample" THEN stops ELSE stops + 1
           /\ main' = g.frame
           /\ handles' = others \cup HeldBy(g.frame)
           /\ opened' = opened + g.opens
           /\ peak' = Max(peak, Cardinality(others)
                                  + (IF main.open \/ g.opens > 0 THEN 1 ELSE 0))
    /\ pulls' = pulls + 1
    /\ UNCHANGED <<base_corpus, inst, lineVars, garbage, nextgen, refcount, dirVars>>

(***************************************************************************)
(* The finalization of a generator nothing refers to: GeneratorExit is     *)
(* raised at its yield and the with block closes the file.  The language   *)
(* leaves open when the collector does this.                               *)
(***************************************************************************)
Finalize ==
    /\ \E id \in garbage :
         /\ handles' = Released(handles, {id})
         /\ garbage' = garbage \ {id}
    /\ UNCHANGED <<winVars, lineVars, main, nextgen, peak, opened, pulls,
                   refcount, dirVars>>

StackNext == StackConstruct \/ StackPull \/ Finalize

SpecStack == StackInit /\ [][StackNext]_vars

\* The same under an interpreter that counts references.
StackInitRC == StackInit /\ refcount = TRUE

SpecStackRC == StackInitRC /\ [][StackNext]_vars

(* C5: constructing a stage raises no error for an upstream content problem
   and opens no file: before the first pull nothing was opened and no
   construction has raised. *)
C5_ConstructionIsLazy ==
    pulls = 0 => /\ opened = 0
                 /\ ret.kind # "IOError"

(* C6: at every point at most one file handle opened by the FileLineIterator
   instance is open. *)
C6_AtMostOneHandle ==
    /\ peak <= 1
    /\ Cardinality(handles) <= 1
----------------------------------------------------------------------------
\* DirWindowIterator over the sliding-window corpus of a directory.

(***************************************************************************)
(* DirSlidingWindowCorpus(path, tokenizer, left_ctx_size, right_ctx_size)  *)
(* (vecto/corpus/corpus.py): a SlidingWindowIterator over the tokenized    *)
(* sequences `corpus` of the files under path.                             *)
(***************************************************************************)
DirSlidingWindowCorpus(corpus, left_ctx_size, right_ctx_size) ==
    SWI_init(base_next(corpus, 0), left_ctx_size, right_ctx_size)

\* Vocabulary.get_id (vecto/vocabulary): a token's id, -1 for a token it does not hold.
get_id(v, w) == IF w \in v THEN w[1] * 10 + w[2] ELSE -1

\* A faulty variant: one -1 is appended instead of as many as are missing.
pad_once(context, n) ==
    IF Len(context) < n THEN Append(context, -1) ELSE context

\* while len(self.context) < self.window_size * 2: self.context.append(-1)
RECURSIVE pad(_, _)
pad(context, n) ==
    IF Len(context) < n THEN pad(Append(context, -1), n) ELSE context

\* The (center, context) next_single_sample makes of next_value.
center_context(v, next_value, ws) ==
    [center |-> get_id(v, next_value.current),
     context |-> pad([j \in 1..Len(next_value.context) |->
                         get_id(v, next_value.context[j])], ws * 2)]

Tokens(corpus) ==
    UNION {{corpus[k][j] : j \in 1..Len(corpus[k])} : k \in 1..Len(corpus)}

\* The vocabularies tried: every token of the corpus, or all but each sequence's first.
Vocabularies(corpus) ==
    {Tokens(corpus), {w \in Tokens(corpus) : w[2] # 0}}

DirInit ==
    /\ LineIdle
    /\ StackIdle
    /\ refcount = TRUE
    /\ base_corpus \in Corpora
    /\ swi = NoSWI
    /\ inst = 0
    /\ ret = [kind |-> "none", value |-> NoSample]
    /\ out = <<>>
    /\ stops = 0
    /\ window_size = 0
    /\ repeat = FALSE
    /\ batch_size = 0
    /\ vocab = {}
    /\ epoch = 0
    /\ is_new_epoch = FALSE
    /\ cnt_words_total = 0
    /\ cnt_words_read = 0
    /\ pc = "new"
    /\ batch = <<>>
    /\ returned = <<>>
    /\ calls = 0
\* DirWindowIterator.__init__(path, vocab, window_size, batch_size, repeat=...).
DWI_init ==
    /\ pc = "new"
    /\ \E w \in 1..MaxWindow, b \in 1..MaxBatch :
         /\ window_size' = w - 1
         /\ batch_size' = b
    /\ repeat' \in BOOLEAN
    /\ vocab' \in Vocabularies(base_corpus)
    /\ LET r == DirSlidingWindowCorpus(base_corpus, window_size', window_size')
       IN  /\ swi' = r.swi
           /\ pc' = IF r.kind = "ok" THEN "idle" ELSE "failed"
           /\ ret' = [kind |-> IF r.kind = "ok" THEN "constructed" ELSE r.kind,
                      value |-> NoSample]
    /\ inst' = 1
    /\ epoch' = 0
    /\ is_new_epoch' = FALSE
    /\ cnt_words_total' = 1
    /\ cnt_words_read' = 0
    /\ UNCHANGED <<base_corpus, out, stops, lineVars, stackVars, batch,
                   returned, calls>>

Outer(p) == IF p \in {"batch", "batch_loop"} THEN "batch" ELSE "idle"
Inner(p) == IF p \in {"batch", "batch_loop"} THEN "batch_loop" ELSE "loop"

(***************************************************************************)
(* next_single_sample is entered, by a caller or by __next__ for the next  *)
(* element of its batch: without repeat and after the first epoch it       *)
(* raises StopIteration, otherwise it goes into its while loop.            *)
(***************************************************************************)
NSS_enter ==
    /\ pc = "idle" \/ (pc = "batch" /\ Len(batch) < batch_size)
    /\ calls < MaxCalls
    /\ calls' = calls + 1
    /\ IF ~repeat /\ epoch > 0
       THEN /\ pc' = "idle"
            /\ ret' = [kind |-> "StopIteration", value |-> NoSample]
       ELSE /\ pc' = Inner(pc)
            /\ UNCHANGED ret
    /\ UNCHANGED <<base_corpus, swi, inst, out, stops, lineVars, stackVars,
                   window_size, repeat, batch_size, vocab, epoch, is_new_epoch,
                   cnt_words_total, cnt_words_read, batch, returned>>

(***************************************************************************)
(* One turn of the while loop of next_single_sample: next(self.dswc)       *)
(* gives a sample, which is counted, converted and returned; or it raises  *)
(* StopIteration, and the epoch is counted, the corpus constructed again   *)
(* and, if the first pass counted fewer than two words, RuntimeError       *)
(* raised; otherwise the loop turns again.                                 *)
(***************************************************************************)
NSS_loop ==
    /\ pc \in {"loop", "batch_loop"}
    /\ LET r == SWI_next(base_corpus, swi)
           c == DirSlidingWindowCorpus(base_corpus, window_size, window_size)
           cc == center_context(vocab, r.value, window_size)
       IN  IF r.kind = "sample"
           THEN /\ swi' = r.swi
                /\ cnt_words_read' = cnt_words_read + 1
                /\ cnt_words_total' = IF epoch = 0 THEN cnt_words_total + 1
                                      ELSE cnt_words_total
                /\ returned' = Append(returned,
                                 [center |-> cc.center, context |-> cc.context,
                                  next_value |-> r.value, pass |-> inst])
                /\ batch' = IF pc = "batch_loop" THEN Append(batch, cc) ELSE batch
                /\ pc' = Outer(pc)
                /\ ret' = [kind |-> "sample", value |-> r.value]
                /\ UNCHANGED <<epoch, is_new_epoch, inst>>
           ELSE /\ epoch' = epoch + 1
                /\ is_new_epoch' = TRUE
                /\ IF c.kind # "ok"
                   THEN /\ pc' = "idle"
                        /\ ret' = [kind |-> c.kind, value |-> NoSample]
                        /\ swi' = r.swi
                        /\ UNCHANGED inst
                   ELSE /\ swi' = c.swi
                        /\ inst' = inst + 1
                        /\ IF epoch' > 0 /\ cnt_words_total < 3
                           THEN /\ pc' = "idle"
                                /\ ret' = [kind |-> "RuntimeError",
                                           value |-> NoSample]
                           ELSE UNCHANGED <<pc, ret>>
                /\ UNCHANGED <<cnt_words_read, cnt_words_total, returned, batch>>
    /\ UNCHANGED <<base_corpus, out, stops, lineVars, stackVars, window_size,
                   repeat, batch_size, vocab, calls>>

\* DirWindowIterator.__next__ starts a batch.
DWI_next ==
    /\ pc = "idle"
    /\ calls < MaxCalls
    /\ is_new_epoch' = FALSE
    /\ batch' = <<>>
    /\ pc' = "batch"
    /\ UNCHANGED <<winVars, lineVars, stackVars, window_size, repeat,
                   batch_size, vocab, epoch, cnt_words_total, cnt_words_read,
                   returned, calls>>

\* DirWindowIterator.__next__ returns the batch as two arrays.
DWI_next_return ==
    /\ pc = "batch"
    /\ Len(batch) = batch_size
    /\ pc' = "idle"
    /\ ret' = [kind |-> "batch", value |-> NoSample]
    /\ UNCHANGED <<base_corpus, swi, inst, out, stops, lineVars, stackVars,
                   window_size, repeat, batch_size, vocab, epoch, is_new_epoch,
                   cnt_words_total, cnt_words_read, batch, returned, calls>>

DirNext == DWI_init \/ NSS_enter \/ NSS_loop \/ DWI_next \/ DWI_next_return

SpecDir == DirInit /\ [][DirNext]_vars

\* The number of samples one pass over the corpus holds.
PassLen == Len(Flatten(base_corpus))

(* C8: every (center, context) next_single_sample returns has a context of
   length exactly 2 * window_size: the ids of the sample's context tokens in
   order, then only -1; so a batch is rectangular. *)
C8_ContextIsPadded ==
    /\ \A j \in 1..Len(returned) :
         LET r == returned[j]
             m == Len(r.next_value.context)
         IN  /\ Len(r.context) = 2 * window_size
             /\ m <= 2 * window_size
             /\ \A c \in 1..m :
                  r.context[c] = get_id(vocab, r.next_value.context[c])
             /\ \A c \in (m + 1)..Len(r.context) : r.context[c] = -1
    /\ \A j \in 1..Len(batch) : Len(batch[j].context) = 2 * window_size

\* A batch of two: one context padded, one not padded at all.
C8_Witness ==
    /\ ret.kind = "batch"
    /\ Len(batch) = 2
    /\ window_size >= 1
    /\ \E j \in 1..Len(returned) :
         /\ Len(returned[j].next_value.context) >= 1
         /\ Len(returned[j].next_value.context) < 2 * window_size
    /\ \E j \in 1..Len(returned) :
         Len(returned[j].next_value.context) = 2 * window_size

(* C9: with repeat=False the iterator makes one pass: it returns the samples
   of the first pass, once each and in order, never one read from a corpus
   constructed again, and epoch never exceeds 1. *)
C9_SinglePassWithoutRepeat ==
    (pc # "new" /\ ~repeat) =>
        /\ epoch <= 1
        /\ Len(returned) <= PassLen
        /\ \A j \in 1..Len(returned) :
             /\ returned[j].pass = 1
             /\ returned[j].next_value.current = Flatten(base_corpus)[j]

(* C10: with repeat=True only a corpus with no samples makes
   next_single_sample raise RuntimeError; when a pass holds a sample, the
   call returns one. *)
C10_RepeatReturnsSample ==
    repeat =>
        /\ ret.kind = "RuntimeError" => PassLen = 0
        /\ (pc = "idle" /\ calls > 0 /\ PassLen >= 1)
             => ret.kind \in {"sample", "batch"}
====
